---- MODULE Spec2Model ----
(***************************************************************************)
(* The interaction engine of crix: the widget tree's hovered / pressed /   *)
(* focused roles driven by SkinApp::on_event, the two binding syncs, the   *)
(* action dispatcher and the Lua action handler.                           *)
(*                                                                         *)
(* Strings that the program computes with (widget text, Store strings,     *)
(* diagnostics) are sequences of character codes; names that the program   *)
(* only compares (node ids, Store keys, action names) are TLA+ strings.    *)
(***************************************************************************)
EXTENDS Integers, Sequences, FiniteSets, TLC

VARIABLES
    tree,       \* UiTree arena: node id -> the widget the node owns
    layout,     \* UiTree arena: node id -> the node's rectangle and child ids
    hovered,    \* UiTree::hovered()
    pressed,    \* UiTree::pressed()
    focused,    \* UiTree::focused()
    store,      \* SkinApp::store
    handlers,   \* ActionDispatcher's handler chain
    log,        \* what the last on_event call did, in order
    ev,         \* the kind of the last window event
    ret,        \* what the last on_event call returned (TRUE = consumed)
    disk,       \* the files SkinApp::new finds: app/app.toml and the scripts
    app_config, \* what AppConfig::load returned: {} before the call, {r} after
    lua_handler \* the LuaActionHandler SkinApp::new constructed: {} or {h}

vars == <<tree, layout, hovered, pressed, focused, store, handlers, log, ev, ret,
          disk, app_config, lua_handler>>

(***************************************************************************)
(* Bounds of the model.                                                    *)
(***************************************************************************)
MaxX == 4          \* the pointer moves along the row y = 0, over x in 0..MaxX
MaxY == 1          \* under SpecHit the pointer moves over the rows 0..MaxY
MaxText == 2       \* a TextInput holds at most MaxText characters
MaxHandlers == 3   \* handler chains of SpecChain have at most MaxHandlers handlers

\* Option::None, for node ids, bindings, actions and script paths.
None == "None"

(***************************************************************************)
(* Store: the typed key-value mapping.                                     *)
(***************************************************************************)
VString(s) == [t |-> "String", s |-> s, n |-> 0, b |-> FALSE]
VNumber(n) == [t |-> "Number", s |-> << >>, n |-> n, b |-> FALSE]
VBool(b) == [t |-> "Bool", s |-> << >>, n |-> 0, b |-> b]
VNull == [t |-> "Null", s |-> << >>, n |-> 0, b |-> FALSE]

EmptyStore == [k \in {} |-> VNull]

StoreHas(st, k) == k \in DOMAIN st

StoreSet(st, k, v) == [x \in (DOMAIN st) \cup {k} |-> IF x = k THEN v ELSE st[x]]

(***************************************************************************)
(* Decimal rendering of a natural number, as f64's Display prints a whole  *)
(* number: 84 -> "84".                                                     *)
(***************************************************************************)
RECURSIVE Digits(_)
Digits(n) == IF n < 10 THEN <<48 + n>> ELSE Append(Digits(n \div 10), 48 + (n % 10))

\* Store::get_string: the value read as a string, empty if absent or not
\* string-coercible.
StoreGetString(st, k) ==
    IF ~StoreHas(st, k) THEN << >>
    ELSE CASE st[k].t = "String" -> st[k].s
           [] st[k].t = "Number" -> Digits(st[k].n)
           [] OTHER -> << >>

(***************************************************************************)
(* Widgets.  Every widget record has the same fields; a kind uses the      *)
(* fields that belong to it.  focus is the widget's own record of the      *)
(* FocusGained / FocusLost events it received.                             *)
(***************************************************************************)
Widget(kind, binding, action) ==
    [kind |-> kind, binding |-> binding, action |-> action,
     text |-> << >>, dirty |-> FALSE, content |-> << >>, focus |-> FALSE]

NodeOrder == <<"root", "input", "button", "label">>
NodeIds == {NodeOrder[i] : i \in 1..Len(NodeOrder)}

\* The tree SkinBuilder::build returns, for a skin that binds the text input
\* to `binding` and the static text to `output`, and gives the button the
\* action `action`.
BuildTree(binding, action, output) ==
    [root |-> Widget("Container", None, None),
     input |-> Widget("TextInput", binding, None),
     button |-> Widget("SkinButton", None, action),
     label |-> Widget("StaticText", output, None)]

Children == [root |-> <<"input", "button", "label">>,
             input |-> << >>, button |-> << >>, label |-> << >>]

Rect == [root |-> [x |-> 0, y |-> 0, w |-> 4, h |-> 1],
         input |-> [x |-> 0, y |-> 0, w |-> 1, h |-> 1],
         button |-> [x |-> 1, y |-> 0, w |-> 1, h |-> 1],
         label |-> [x |-> 2, y |-> 0, w |-> 1, h |-> 1]]

Contains(r, x, y) == x >= r.x /\ x < r.x + r.w /\ y >= r.y /\ y < r.y + r.h

\* The rectangles and child lists of the tree SkinBuilder::build returns.
SkinLayout == [id \in NodeIds |-> [rect |-> Rect[id], children |-> Children[id]]]

\* UiTree::hit_test: children in reverse order first, then the node itself.
RECURSIVE HitTestNode(_, _, _, _)
RECURSIVE HitTestChildren(_, _, _, _, _)
HitTestChildren(lay, n, i, x, y) ==
    IF i = 0 THEN None
    ELSE LET h == HitTestNode(lay, lay[n].children[i], x, y)
         IN IF h # None THEN h ELSE HitTestChildren(lay, n, i - 1, x, y)

\* hit_test that looks into a node's children only if the node's own
\* rectangle contains the point
HitTestNode_ParentFirst(lay, n, x, y) ==
    IF ~Contains(lay[n].rect, x, y) THEN None
    ELSE LET h == HitTestChildren(lay, n, Len(lay[n].children), x, y)
         IN IF h # None THEN h ELSE n

HitTestNode(lay, n, x, y) ==
    LET h == HitTestChildren(lay, n, Len(lay[n].children), x, y)
    IN IF h # None THEN h
       ELSE IF Contains(lay[n].rect, x, y) THEN n ELSE None

HitTest(lay, x, y) == HitTestNode(lay, "root", x, y)

(***************************************************************************)
(* The log of one on_event call.                                           *)
(***************************************************************************)
Ev(e, a, i) == [e |-> e, a |-> a, i |-> i]

Logged(s, e, a, i) == [s EXCEPT !.log = Append(@, Ev(e, a, i))]

(***************************************************************************)
(* Widget events and the widgets' reactions to them.                       *)
(***************************************************************************)
WClick == [e |-> "Click", key |-> None, c |-> 0]
WFocusGained == [e |-> "FocusGained", key |-> None, c |-> 0]
WFocusLost == [e |-> "FocusLost", key |-> None, c |-> 0]
WKeyDown(key) == [e |-> "KeyDown", key |-> key, c |-> 0]
WCharInput(c) == [e |-> "CharInput", key |-> None, c |-> c]
\* Option::None of a widget event
WNone == [e |-> None, key |-> None, c |-> 0]

\* Widget::on_event.
WidgetOnEvent(w, wev) ==
    CASE wev.e = "FocusGained" -> [w EXCEPT !.focus = TRUE]
      [] wev.e = "FocusLost" -> [w EXCEPT !.focus = FALSE]
      [] wev.e = "CharInput" /\ w.kind = "TextInput" ->
            [w EXCEPT !.text = Append(@, wev.c), !.dirty = TRUE]
      [] wev.e = "KeyDown" /\ w.kind = "TextInput" /\ wev.key = "Backspace"
            /\ Len(w.text) > 0 ->
            [w EXCEPT !.text = SubSeq(@, 1, Len(@) - 1), !.dirty = TRUE]
      [] OTHER -> w

\* if let Some(node) = self.tree.get_mut(id) { node.widget_mut().on_event(&wev) }
Deliver(s, id, wev) ==
    IF id \in DOMAIN s.tree
    THEN Logged([s EXCEPT !.tree[id] = WidgetOnEvent(@, wev)], wev.e, id, 0)
    ELSE s

(***************************************************************************)
(* Lua values and the scripts of the app directory.  A script is a         *)
(* sequence of statements over the three primitives of the `app` table.    *)
(***************************************************************************)
LStr(s) == [t |-> "string", s |-> s, n |-> 0, b |-> FALSE]
LInt(n) == [t |-> "integer", s |-> << >>, n |-> n, b |-> FALSE]
LNum(n) == [t |-> "number", s |-> << >>, n |-> n, b |-> FALSE]
LBool(b) == [t |-> "boolean", s |-> << >>, n |-> 0, b |-> b]
LNil == [t |-> "nil", s |-> << >>, n |-> 0, b |-> FALSE]
LTable == [t |-> "table", s |-> << >>, n |-> 0, b |-> FALSE]
\* not a value: the evaluation raised a Lua error
LRaised == [t |-> "raised", s |-> << >>, n |-> 0, b |-> FALSE]

Lit(v) == [x |-> "lit", v |-> v]
AppGet(k) == [x |-> "get", k |-> k]
ToNumber(a) == [x |-> "tonumber", a |-> a]
Mul(l, r) == [x |-> "mul", l |-> l, r |-> r]
CallGlobal(g) == [x |-> "callglobal", g |-> g]

AppSet(k, e) == [op |-> "set", k |-> k, e |-> e]
Do(e) == [op |-> "do", k |-> None, e |-> e]

\* app.set("outputs.y", tonumber(app.get("inputs.x")) * 2)
ScriptDouble == <<AppSet("outputs.y", Mul(ToNumber(AppGet("inputs.x")), Lit(LInt(2))))>>
\* app.set("outputs.y", "ok"); os.exit(1)
ScriptCrash == <<AppSet("outputs.y", Lit(LStr(<<111, 107>>))), Do(CallGlobal("os"))>>
\* app.set("outputs.y", "ok"); app.set("outputs.z", "\xff")
ScriptBadStr == <<AppSet("outputs.y", Lit(LStr(<<111, 107>>))),
                  AppSet("outputs.z", Lit(LStr(<<255>>)))>>
\* app.set("inputs.x", ""); app.set("outputs.y", "0")
ScriptReset == <<AppSet("inputs.x", Lit(LStr(<< >>))),
                 AppSet("outputs.y", Lit(LStr(<<48>>)))>>
\* app.set("inputs.x", "7"); app.set("inputs.x", {})
\* app.set("outputs.y", app.get("inputs.x")); app.set("outputs.z", true)
ScriptEcho == <<AppSet("inputs.x", Lit(LStr(<<55>>))),
                AppSet("inputs.x", Lit(LTable)),
                AppSet("outputs.y", AppGet("inputs.x")),
                AppSet("outputs.z", Lit(LBool(TRUE)))>>
\* app.set("outputs.z", 1.0)
\* app.set("outputs.y", "?"); app.set("outputs.y", tonumber(app.get("inputs.x")))
ScriptParse == <<AppSet("outputs.z", Lit(LNum(1))),
                 AppSet("outputs.y", Lit(LStr(<<63>>))),
                 AppSet("outputs.y", ToNumber(AppGet("inputs.x")))>>

\* The files of the app directory, by path.
FileContent == [x \in {"app/actions/double.lua", "app/actions/crash.lua",
                       "app/actions/badstr.lua", "app/actions/reset.lua",
                       "app/actions/echo.lua", "app/actions/parse.lua"} |->
                   CASE x = "app/actions/double.lua" -> ScriptDouble
                     [] x = "app/actions/crash.lua" -> ScriptCrash
                     [] x = "app/actions/badstr.lua" -> ScriptBadStr
                     [] x = "app/actions/echo.lua" -> ScriptEcho
                     [] x = "app/actions/parse.lua" -> ScriptParse
                     [] OTHER -> ScriptReset]

\* LuaActionHandler::action_scripts, as LuaActionHandler::new copies it from
\* the loaded configuration.
ActionScripts == [double |-> "app/actions/double.lua",
                  crash |-> "app/actions/crash.lua",
                  badstr |-> "app/actions/badstr.lua",
                  reset |-> "app/actions/reset.lua",
                  echo |-> "app/actions/echo.lua",
                  parse |-> "app/actions/parse.lua"]

\* The keys a script can write, and the orders in which pairs() can visit them.
ScriptKeys == {"inputs.x", "outputs.y", "outputs.z"}
Orders == {o \in [1..Cardinality(ScriptKeys) -> ScriptKeys] :
              \A i, j \in DOMAIN o : i # j => o[i] # o[j]}

\* What the environment decides during one on_event call: whether the script
\* file can be read, and the order of the output table's pairs.
Envs == [readable : BOOLEAN, order : Orders]

\* LuaActionHandler::get_script
GetScript(name) == IF name \in DOMAIN ActionScripts THEN ActionScripts[name] ELSE None

(***************************************************************************)
(* AppConfig::load and LuaActionHandler::new.  A path is the sequence of   *)
(* its components, with "/" as the first component of an absolute path.    *)
(* The disk is what the loader finds: whether app/app.toml can be read,    *)
(* whether it parses, its [actions] table and the paths that exist.        *)
(***************************************************************************)
ConfigPath == <<"app", "app.toml">>

\* Path::parent of a path with at least one component
Parent(p) == SubSeq(p, 1, Len(p) - 1)

\* Path::join: an absolute right-hand side replaces the base
Join(base, rel) == IF rel # << >> /\ rel[1] = "/" THEN rel ELSE base \o rel

IoError == [ok |-> FALSE, err |-> "Io"]
TomlError == [ok |-> FALSE, err |-> "Toml"]
ScriptNotFound(action, path) ==
    [ok |-> FALSE, err |-> "ScriptNotFound", action |-> action, path |-> path]

\* HashMap::insert
Insert(m, k, v) == [a \in DOMAIN m \cup {k} |-> IF a = k THEN v ELSE m[a]]

\* the orders in which a HashMap with these keys can be iterated
HashOrders(names) ==
    {o \in [1..Cardinality(names) -> names] :
        \A i, j \in DOMAIN o : i # j => o[i] # o[j]}

RECURSIVE LoadActions(_, _, _, _, _)

\* a loader that trusts the table: the script is registered unseen
LoadAction_NoExistsCheck(d, base, order, i, acc, path) ==
    LoadActions(d, base, order, i + 1, Insert(acc, order[i], path))

\* one turn of the loop over toml.actions
LoadAction(d, base, order, i, acc, path) ==
    IF path \notin d.files
    THEN ScriptNotFound(order[i], path)
    ELSE LoadActions(d, base, order, i + 1, Insert(acc, order[i], path))

LoadActions(d, base, order, i, acc) ==
    IF i > Len(order)
    THEN [ok |-> TRUE, action_scripts |-> acc, base_path |-> base]
    ELSE LoadAction(d, base, order, i, acc, Join(base, d.actions[order[i]]))

\* AppConfig::load
Load(d, order) ==
    IF ~d.readable THEN IoError
    ELSE IF ~d.parses THEN TomlError
    ELSE LoadActions(d, Parent(ConfigPath), order, 1, << >>)

\* LuaActionHandler::new
NewHandler(config) ==
    [action_scripts |-> [a \in DOMAIN config.action_scripts |->
                            config.action_scripts[a]]]

\* The application's own directory: every registered script is in place.
AppDisk ==
    [readable |-> TRUE, parses |-> TRUE,
     actions |-> [double |-> <<"actions", "double.lua">>,
                  crash |-> <<"actions", "crash.lua">>,
                  badstr |-> <<"actions", "badstr.lua">>,
                  reset |-> <<"actions", "reset.lua">>,
                  echo |-> <<"actions", "echo.lua">>,
                  parse |-> <<"actions", "parse.lua">>],
     files |-> {<<"app", "actions", "double.lua">>, <<"app", "actions", "crash.lua">>,
                <<"app", "actions", "badstr.lua">>, <<"app", "actions", "reset.lua">>,
                <<"app", "actions", "echo.lua">>, <<"app", "actions", "parse.lua">>}]

\* what AppConfig::load can return there, whatever the iteration order
AppConfigs == {Load(AppDisk, o) : o \in HashOrders(DOMAIN AppDisk.actions)}

\* SkinApp::new got past AppConfig::load and built the handler
Booted ==
    /\ disk = AppDisk
    /\ \E c \in AppConfigs : app_config = {c} /\ lua_handler = {NewHandler(c)}

(***************************************************************************)
(* Lua's string -> number conversion, for decimal naturals with optional   *)
(* surrounding spaces.                                                     *)
(***************************************************************************)
IsDigit(c) == c >= 48 /\ c <= 57

RECURSIVE TrimLeft(_)
TrimLeft(s) == IF Len(s) > 0 /\ Head(s) = 32 THEN TrimLeft(Tail(s)) ELSE s

RECURSIVE TrimRight(_)
TrimRight(s) ==
    IF Len(s) > 0 /\ s[Len(s)] = 32 THEN TrimRight(SubSeq(s, 1, Len(s) - 1)) ELSE s

RECURSIVE DecimalValue(_)
DecimalValue(s) ==
    IF Len(s) = 0 THEN 0
    ELSE 10 * DecimalValue(SubSeq(s, 1, Len(s) - 1)) + (s[Len(s)] - 48)

\* LNil when the string is no numeral
ParseNumber(s) ==
    LET d == TrimRight(TrimLeft(s))
    IN IF Len(d) > 0 /\ \A i \in 1..Len(d) : IsDigit(d[i])
       THEN LInt(DecimalValue(d)) ELSE LNil

IsNumber(v) == v.t \in {"integer", "number"}

\* the operand of an arithmetic operator, coerced as Lua coerces it
ArithOperand(v) ==
    CASE IsNumber(v) -> v
      [] v.t = "string" -> ParseNumber(v.s)
      [] OTHER -> LNil

\* copy-in of one Store value (store_data.set)
ToLua(v) ==
    CASE v.t = "String" -> LStr(v.s)
      [] v.t = "Number" -> LNum(v.n)
      [] v.t = "Bool" -> LBool(v.b)
      [] OTHER -> LNil

\* a Lua table never holds a nil value: setting nil removes the key
TableSet(tbl, k, v) ==
    IF v.t = "nil" THEN [x \in (DOMAIN tbl) \ {k} |-> tbl[x]]
    ELSE [x \in (DOMAIN tbl) \cup {k} |-> IF x = k THEN v ELSE tbl[x]]

TableGet(tbl, k) == IF k \in DOMAIN tbl THEN tbl[k] ELSE LNil

EmptyTable == [k \in {} |-> LNil]

\* store_data: the snapshot table filled from every Store entry
CopyIn(st) == [k \in {x \in DOMAIN st : st[x].t # "Null"} |-> ToLua(st[k])]

\* The value of an expression in a fresh interpreter whose globals os, io,
\* debug, loadfile, dofile and load are nil; LRaised when it raises an error.
\* tonumber(a)
TonumberOf(a) ==
    CASE a.t = "raised" -> LRaised
      [] IsNumber(a) -> a
      [] a.t = "string" -> ParseNumber(a.s)
      [] OTHER -> LNil

\* the product of two coerced operands; arithmetic on nil raises
Product(a, b) ==
    IF a.t = "nil" \/ b.t = "nil" THEN LRaised
    ELSE IF a.t = "integer" /\ b.t = "integer" THEN LInt(a.n * b.n) ELSE LNum(a.n * b.n)

\* l * r
MulOf(l, r) ==
    IF l.t = "raised" \/ r.t = "raised" THEN LRaised
    ELSE Product(ArithOperand(l), ArithOperand(r))

RECURSIVE Eval(_, _)
Eval(e, snap) ==
    CASE e.x = "lit" -> e.v
      [] e.x = "get" -> TableGet(snap, e.k)
      [] e.x = "tonumber" -> TonumberOf(Eval(e.a, snap))
      [] e.x = "mul" -> MulOf(Eval(e.l, snap), Eval(e.r, snap))
      [] OTHER -> LRaised   \* a field of a stripped global: indexing nil

\* lua.load(script).exec(): the output table the statements from i on leave,
\* and whether the script ran to its end.
RECURSIVE Exec(_, _, _, _)
\* a statement whose app.set also writes the table app.get reads
ExecStatement_ReadYourWrites(script, i, snap, out, v) ==
    IF v.t = "raised" THEN [ok |-> FALSE, out |-> out]
    ELSE IF script[i].op = "set"
         THEN Exec(script, i + 1, TableSet(snap, script[i].k, v),
                   TableSet(out, script[i].k, v))
         ELSE Exec(script, i + 1, snap, out)

\* the i-th statement, its expression having the value v, and the rest
ExecStatement(script, i, snap, out, v) ==
    IF v.t = "raised" THEN [ok |-> FALSE, out |-> out]
    ELSE IF script[i].op = "set"
         THEN Exec(script, i + 1, snap, TableSet(out, script[i].k, v))
         ELSE Exec(script, i + 1, snap, out)

Exec(script, i, snap, out) ==
    IF i > Len(script) THEN [ok |-> TRUE, out |-> out]
    ELSE ExecStatement(script, i, snap, out, Eval(script[i].e, snap))

\* s.to_str(): a Lua string is a Rust string only if it is valid UTF-8
ValidUtf8(s) == \A i \in 1..Len(s) : s[i] < 128

\* The copy-out loop over output_data.pairs(), visiting the keys in `order`
\* from position i; it stops at the first error, with the Store as written
\* so far.
\* the match without its LuaValue::Integer arm
CopyOutValue_NoIntegerArm(v) ==
    CASE v.t = "string" ->
            IF ValidUtf8(v.s) THEN [do |-> "set", v |-> VString(v.s)]
            ELSE [do |-> "fail", v |-> VNull]
      [] v.t = "number" -> [do |-> "set", v |-> VNumber(v.n)]
      [] v.t = "boolean" -> [do |-> "set", v |-> VBool(v.b)]
      [] v.t = "nil" -> [do |-> "set", v |-> VNull]
      [] OTHER -> [do |-> "skip", v |-> VNull]

\* the match on one pair's value: the Store value to set, or "skip" for a
\* non-primitive value, or "fail" when s.to_str() fails
CopyOutValue(v) ==
    CASE v.t = "string" ->
            IF ValidUtf8(v.s) THEN [do |-> "set", v |-> VString(v.s)]
            ELSE [do |-> "fail", v |-> VNull]
      [] v.t = "number" -> [do |-> "set", v |-> VNumber(v.n)]
      [] v.t = "integer" -> [do |-> "set", v |-> VNumber(v.n)]
      [] v.t = "boolean" -> [do |-> "set", v |-> VBool(v.b)]
      [] v.t = "nil" -> [do |-> "set", v |-> VNull]
      [] OTHER -> [do |-> "skip", v |-> VNull]

RECURSIVE CopyOut(_, _, _, _)
\* the pair of key k, whose value maps to m, and the pairs after it
CopyOutPair(st, out, order, i, k, m) ==
    CASE m.do = "set" -> CopyOut(StoreSet(st, k, m.v), out, order, i + 1)
      [] m.do = "fail" -> [ok |-> FALSE, store |-> st]
      [] OTHER -> CopyOut(st, out, order, i + 1)

CopyOut(st, out, order, i) ==
    IF i > Len(order) THEN [ok |-> TRUE, store |-> st]
    ELSE IF order[i] \notin DOMAIN out THEN CopyOut(st, out, order, i + 1)
         ELSE CopyOutPair(st, out, order, i, order[i], CopyOutValue(out[order[i]]))

\* LuaError, as its Display prints it
DisplayLuaError(err) ==
    CASE err = "Io" -> <<83, 99, 114, 105, 112, 116, 32, 73, 79>>   \* "Script IO"
      [] OTHER -> <<76, 117, 97, 32, 114, 117, 110, 116, 105, 109, 101>> \* "Lua runtime"

\* "Script error: "
StrScriptError == <<83, 99, 114, 105, 112, 116, 32, 101, 114, 114, 111, 114, 58, 32>>

\* LuaActionHandler::execute_script on the application state s: the state
\* after it, and Ok(()) or the error.
\* execute_script after the copy-out loop returned c
ExecuteCopied(s, c) ==
    [s |-> [s EXCEPT !.store = c.store], ok |-> c.ok,
     err |-> IF c.ok THEN None ELSE "Runtime"]

\* execute_script after exec() returned x
ExecuteRan(s, x, env) ==
    IF ~x.ok THEN [s |-> s, ok |-> FALSE, err |-> "Runtime"]
    ELSE ExecuteCopied(s, CopyOut(s.store, x.out, env.order, 1))

\* execute_script from Lua::new() on
ExecuteIn(s, path, env) ==
    ExecuteRan(s, Exec(FileContent[path], 1, CopyIn(s.store), EmptyTable), env)

ExecuteScript(s, path, env) ==
    IF ~env.readable THEN [s |-> s, ok |-> FALSE, err |-> "Io"]
    ELSE ExecuteIn(Logged(s, "Lua::new", path, 0), path, env)

\* store.set(format!("errors.action.{}", name), format!("Script error: {}", e))
StoreDiagnostic(s, name, err) ==
    [s EXCEPT !.store = StoreSet(@, "errors.action." \o name,
                                 VString(StrScriptError \o DisplayLuaError(err)))]

\* handle's match on the result x of execute_script
Handled(x, name) ==
    IF x.ok THEN [s |-> x.s, r |-> "true"]
    ELSE [s |-> StoreDiagnostic(Logged(x.s, "eprintln_lua", x.err, 0), name, x.err),
          r |-> "true"]

\* handle that reports an action without a script as a failed script
LuaHandle_MissingIsError(s, name, env) ==
    IF GetScript(name) = None
    THEN [s |-> StoreDiagnostic(s, name, "ScriptNotFound"), r |-> "false"]
    ELSE Handled(ExecuteScript(s, GetScript(name), env), name)

\* the match on the result x of execute_script, passing a failure on
HandledOrErr(x) ==
    IF x.ok THEN [s |-> x.s, r |-> "true"]
    ELSE [s |-> Logged(x.s, "eprintln_lua", x.err, 0), r |-> "err"]

\* handle that passes a script's failure on to the dispatcher
LuaHandle_PropagateErr(s, name, env) ==
    IF GetScript(name) = None THEN [s |-> s, r |-> "false"]
    ELSE HandledOrErr(ExecuteScript(s, GetScript(name), env))

\* LuaActionHandler::handle: the state after it and its result,
\* "true" / "false" for Ok(true) / Ok(false), "err" for Err.
LuaHandle(s, name, env) ==
    IF GetScript(name) = None THEN [s |-> s, r |-> "false"]
    ELSE Handled(ExecuteScript(s, GetScript(name), env), name)

(***************************************************************************)
(* The action dispatcher.  A handler of the chain is the Lua handler or    *)
(* one of three fixed handlers: "no" returns Ok(false), "yes" returns      *)
(* Ok(true), "err" returns Err.                                            *)
(***************************************************************************)
HandlerKinds == {"lua", "no", "yes", "err"}

\* ActionHandler::handle of the handler h
Handle(h, s, name, env) ==
    CASE h = "lua" -> LuaHandle(s, name, env)
      [] h = "no" -> [s |-> s, r |-> "false"]
      [] h = "yes" -> [s |-> s, r |-> "true"]
      [] OTHER -> [s |-> s, r |-> "err"]

\* ActionDispatcher::dispatch from the i-th handler on: the state after it
\* and "Ok" or "Err".  The log gets the invocation of each handler and then
\* its result.
RECURSIVE DispatchFrom(_, _, _, _, _)
\* the loop after the i-th handler returned h
HandlerReturned(chain, i, h, name, env) ==
    CASE h.r = "true" -> [s |-> Logged(h.s, h.r, chain[i], i), r |-> "Ok"]
      [] h.r = "err" -> [s |-> Logged(h.s, h.r, chain[i], i), r |-> "Err"]
      [] OTHER -> DispatchFrom(chain, i + 1, Logged(h.s, h.r, chain[i], i), name, env)

DispatchFrom(chain, i, s, name, env) ==
    IF i > Len(chain) THEN [s |-> s, r |-> "Ok"]
    ELSE HandlerReturned(chain, i,
                     Handle(chain[i], Logged(s, "handle", chain[i], i), name, env),
                     name, env)

\* dispatch that keeps going after a handler claimed the action
RECURSIVE DispatchAllFrom(_, _, _, _, _)
DispatchedAll(chain, i, h, name, env) ==
    IF h.r = "err" THEN [s |-> Logged(h.s, h.r, chain[i], i), r |-> "Err"]
    ELSE DispatchAllFrom(chain, i + 1, Logged(h.s, h.r, chain[i], i), name, env)

DispatchAllFrom(chain, i, s, name, env) ==
    IF i > Len(chain) THEN [s |-> s, r |-> "Ok"]
    ELSE DispatchedAll(chain, i,
                       Handle(chain[i], Logged(s, "handle", chain[i], i), name, env),
                       name, env)

Dispatch_NoShortCircuit(chain, s, name, env) == DispatchAllFrom(chain, 1, s, name, env)

Dispatch(chain, s, name, env) == DispatchFrom(chain, 1, s, name, env)

\* if let Err(e) = d { eprintln!("Action error: {}", e) }
Reported(d, name) ==
    IF d.r = "Err" THEN Logged(Logged(d.s, "dispatched", "Err", 0), "eprintln", name, 0)
    ELSE Logged(d.s, "dispatched", "Ok", 0)

\* the same with the test of the result inverted
ReportedInverted(d, name) ==
    IF d.r = "Ok" THEN Logged(Logged(d.s, "dispatched", "Ok", 0), "eprintln", name, 0)
    ELSE Logged(d.s, "dispatched", "Err", 0)

DispatchAction_Inverted(s, chain, name, env) ==
    ReportedInverted(Dispatch(chain, Logged(s, "dispatch", name, 0), name, env), name)

\* SkinApp::dispatch_action
DispatchAction(s, chain, name, env) ==
    Reported(Dispatch(chain, Logged(s, "dispatch", name, 0), name, env), name)

(***************************************************************************)
(* Binding sync.                                                           *)
(***************************************************************************)
\* the inputs->store loop that writes every bound input, dirty or not
RECURSIVE SyncInputsFrom_NoDirtyCheck(_, _)
SyncInputsFrom_NoDirtyCheck(s, i) ==
    IF i > Len(NodeOrder) THEN s
    ELSE LET id == NodeOrder[i]
             w == s.tree[id]
         IN IF w.kind = "TextInput"
            THEN LET s1 == IF w.binding # None
                           THEN [s EXCEPT !.store = StoreSet(@, w.binding, VString(w.text))]
                           ELSE s
                 IN SyncInputsFrom_NoDirtyCheck([s1 EXCEPT !.tree[id].dirty = FALSE], i + 1)
            ELSE SyncInputsFrom_NoDirtyCheck(s, i + 1)

\* the inputs->store loop that clears the dirty flag only of a widget it wrote
RECURSIVE SyncInputsFrom_ClearBoundOnly(_, _)
SyncInputsFrom_ClearBoundOnly(s, i) ==
    IF i > Len(NodeOrder) THEN s
    ELSE LET id == NodeOrder[i]
             w == s.tree[id]
         IN IF w.kind = "TextInput" /\ w.dirty /\ w.binding # None
            THEN SyncInputsFrom_ClearBoundOnly(
                     [s EXCEPT !.store = StoreSet(@, w.binding, VString(w.text)),
                               !.tree[id].dirty = FALSE], i + 1)
            ELSE SyncInputsFrom_ClearBoundOnly(s, i + 1)

\* the loop of sync_inputs_to_store over the node ids from the i-th on
RECURSIVE SyncInputsFrom(_, _)
SyncInputsFrom(s, i) ==
    IF i > Len(NodeOrder) THEN s
    ELSE LET id == NodeOrder[i]
             w == s.tree[id]
         IN IF w.kind = "TextInput" /\ w.dirty
            THEN LET s1 == IF w.binding # None
                           THEN [s EXCEPT !.store = StoreSet(@, w.binding, VString(w.text))]
                           ELSE s
                 IN SyncInputsFrom([s1 EXCEPT !.tree[id].dirty = FALSE], i + 1)
            ELSE SyncInputsFrom(s, i + 1)

\* SkinApp::sync_inputs_to_store
SyncInputsToStore(s) == SyncInputsFrom(Logged(s, "sync_inputs_to_store", None, 0), 1)

\* the store->outputs loop that shows whatever the Store value reads as,
\* the empty string included
RECURSIVE SyncOutputsFrom_ShowEmpty(_, _)
SyncOutputsFrom_ShowEmpty(s, i) ==
    IF i > Len(NodeOrder) THEN s
    ELSE LET id == NodeOrder[i]
             w == s.tree[id]
         IN IF w.kind = "StaticText" /\ w.binding # None
            THEN SyncOutputsFrom_ShowEmpty(
                     [s EXCEPT !.tree[id].content = StoreGetString(s.store, w.binding)], i + 1)
            ELSE SyncOutputsFrom_ShowEmpty(s, i + 1)

\* the loop of sync_store_to_outputs over the node ids from the i-th on
RECURSIVE SyncOutputsFrom(_, _)
SyncOutputsFrom(s, i) ==
    IF i > Len(NodeOrder) THEN s
    ELSE LET id == NodeOrder[i]
             w == s.tree[id]
         IN IF w.kind = "StaticText" /\ w.binding # None
            THEN LET value == StoreGetString(s.store, w.binding)
                 IN IF value # << >> /\ value # w.content
                    THEN SyncOutputsFrom([s EXCEPT !.tree[id].content = value], i + 1)
                    ELSE SyncOutputsFrom(s, i + 1)
            ELSE SyncOutputsFrom(s, i + 1)

\* SkinApp::sync_store_to_outputs
SyncStoreToOutputs(s) == SyncOutputsFrom(Logged(s, "sync_store_to_outputs", None, 0), 1)

\* SkinApp::get_button_action
GetButtonAction(s, id) ==
    IF id \in DOMAIN s.tree /\ s.tree[id].kind = "SkinButton"
    THEN s.tree[id].action ELSE None

(***************************************************************************)
(* SkinApp::on_event, one operator per window event: the application       *)
(* state after the call and the value returned.                            *)
(***************************************************************************)
Result(s, r) == [s |-> s, ret |-> r]

\* CursorMoved that keeps the id of a node that is no longer in the tree when
\* the pointer is over no node
CursorMoved_StaleId(s, x, y) ==
    Result([s EXCEPT !.hovered = IF HitTest(s.layout, x, y) = None THEN "removed"
                                 ELSE HitTest(s.layout, x, y)],
           TRUE)

\* CursorMoved that abandons the press when the pointer leaves the pressed node
CursorMoved_DropPress(s, x, y) ==
    Result([s EXCEPT !.hovered = HitTest(s.layout, x, y),
                     !.pressed = IF HitTest(s.layout, x, y) = s.pressed
                                 THEN s.pressed ELSE None],
           TRUE)

\* WindowEvent::CursorMoved
CursorMoved(s, x, y) == Result([s EXCEPT !.hovered = HitTest(s.layout, x, y)], TRUE)

\* MousePressed with the two focus notifications in the wrong order
MousePressed_GainFirst(s) ==
    IF s.hovered # None
    THEN LET h == s.hovered
             s1 == [s EXCEPT !.pressed = h]
             old == s1.focused
         IN IF old # h
            THEN LET s2 == Logged([s1 EXCEPT !.focused = h], "set_focused", h, 0)
                     s3 == Deliver(s2, h, WFocusGained)
                 IN Result(IF old # None THEN Deliver(s3, old, WFocusLost) ELSE s3, TRUE)
            ELSE Result(s1, TRUE)
    ELSE LET s1 == IF s.focused # None THEN Deliver(s, s.focused, WFocusLost) ELSE s
         IN Result(Logged([s1 EXCEPT !.focused = None], "set_focused", None, 0), TRUE)

\* MousePressed that notifies the focused widget of a press on empty space
\* but keeps it focused
MousePressed_KeepFocus(s) ==
    IF s.hovered # None
    THEN LET h == s.hovered
             s1 == [s EXCEPT !.pressed = h]
             old == s1.focused
         IN IF old # h
            THEN LET s2 == IF old # None THEN Deliver(s1, old, WFocusLost) ELSE s1
                     s3 == Logged([s2 EXCEPT !.focused = h], "set_focused", h, 0)
                 IN Result(Deliver(s3, h, WFocusGained), TRUE)
            ELSE Result(s1, TRUE)
    ELSE Result(IF s.focused # None THEN Deliver(s, s.focused, WFocusLost) ELSE s, TRUE)

\* WindowEvent::MouseInput, ElementState::Pressed
MousePressed(s) ==
    IF s.hovered # None
    THEN LET h == s.hovered
             s1 == [s EXCEPT !.pressed = h]
             old == s1.focused
         IN IF old # h
            THEN LET s2 == IF old # None THEN Deliver(s1, old, WFocusLost) ELSE s1
                     s3 == Logged([s2 EXCEPT !.focused = h], "set_focused", h, 0)
                 IN Result(Deliver(s3, h, WFocusGained), TRUE)
            ELSE Result(s1, TRUE)
    ELSE LET s1 == IF s.focused # None THEN Deliver(s, s.focused, WFocusLost) ELSE s
         IN Result(Logged([s1 EXCEPT !.focused = None], "set_focused", None, 0), TRUE)

\* the release arm running both syncs also for a node without action
Clicked_SyncWithoutAction(s, action, chain, env) ==
    IF action # None
    THEN SyncStoreToOutputs(DispatchAction(SyncInputsToStore(s), chain, action, env))
    ELSE SyncStoreToOutputs(SyncInputsToStore(s))

\* the dispatch sequence with the inputs->store sync after the dispatch
Clicked_SyncInputsLate(s, action, chain, env) ==
    IF action # None
    THEN SyncStoreToOutputs(SyncInputsToStore(DispatchAction(s, chain, action, env)))
    ELSE s

\* the release arm once the Click went to p: the dispatch sequence if the
\* node is a button with an action
Clicked(s, action, chain, env) ==
    IF action # None
    THEN SyncStoreToOutputs(DispatchAction(SyncInputsToStore(s), chain, action, env))
    ELSE s

\* self.tree.set_pressed(None)
SetPressedNone(s) == Logged([s EXCEPT !.pressed = None], "set_pressed", None, 0)

\* MouseReleased that clicks whatever is pressed, wherever the pointer is
MouseReleased_NoHoverCheck(s, chain, env) ==
    IF s.pressed # None
    THEN Result(SetPressedNone(Clicked(Deliver(s, s.pressed, WClick),
                                       GetButtonAction(s, s.pressed), chain, env)), TRUE)
    ELSE Result(SetPressedNone(s), TRUE)

\* the release arm giving up when the dispatch d failed
AbortedOnErr(d) ==
    IF \E i \in DOMAIN d.log : d.log[i] = Ev("dispatched", "Err", 0)
    THEN Result(d, FALSE)
    ELSE Result(SetPressedNone(SyncStoreToOutputs(d)), TRUE)

\* MouseReleased that gives up when the dispatch failed
MouseReleased_AbortOnErr(s, chain, env) ==
    IF s.pressed # None /\ s.hovered = s.pressed
    THEN IF GetButtonAction(s, s.pressed) # None
         THEN AbortedOnErr(DispatchAction(SyncInputsToStore(Deliver(s, s.pressed, WClick)),
                                          chain, GetButtonAction(s, s.pressed), env))
         ELSE Result(SetPressedNone(Deliver(s, s.pressed, WClick)), TRUE)
    ELSE Result(SetPressedNone(s), TRUE)

\* MouseReleased that clears pressed only when the release is no click
MouseReleased_ClearInElse(s, chain, env) ==
    IF s.pressed # None /\ s.hovered = s.pressed
    THEN Result(Clicked(Deliver(s, s.pressed, WClick),
                        GetButtonAction(s, s.pressed), chain, env), TRUE)
    ELSE Result(SetPressedNone(s), TRUE)

\* WindowEvent::MouseInput, ElementState::Released
MouseReleased(s, chain, env) ==
    IF s.pressed # None /\ s.hovered = s.pressed
    THEN Result(SetPressedNone(Clicked(Deliver(s, s.pressed, WClick),
                                       GetButtonAction(s, s.pressed), chain, env)), TRUE)
    ELSE Result(SetPressedNone(s), TRUE)

(***************************************************************************)
(* Keyboard input.  A key is Key::Named(name) or Key::Character(chars),    *)
(* chars being the character codes of the string.                          *)
(***************************************************************************)
NamedKey(name) == [named |-> TRUE, name |-> name, chars |-> << >>]
CharKey(chars) == [named |-> FALSE, name |-> None, chars |-> chars]

NamedKeys == {"Backspace", "Delete", "ArrowLeft", "ArrowRight", "Home", "End",
              "Enter", "Escape"}

\* "4", "2", "42", DEL, e-acute
CharStrings == {<<52>>, <<50>>, <<52, 50>>, <<127>>, <<233>>}

Keys == {NamedKey(n) : n \in NamedKeys} \cup {CharKey(c) : c \in CharStrings}

\* str::len of a one-character string: its length in UTF-8 bytes
Utf8Len(c) == IF c < 128 THEN 1 ELSE 2

RECURSIVE StrLen(_)
StrLen(chars) == IF chars = << >> THEN 0 ELSE Utf8Len(Head(chars)) + StrLen(Tail(chars))

\* the match on event.logical_key: the widget event, or WNone
MapKey(key) ==
    IF key.named
    THEN CASE key.name = "Backspace" -> WKeyDown("Backspace")
           [] key.name = "Delete" -> WKeyDown("Delete")
           [] key.name = "ArrowLeft" -> WKeyDown("Left")
           [] key.name = "ArrowRight" -> WKeyDown("Right")
           [] key.name = "Home" -> WKeyDown("Home")
           [] key.name = "End" -> WKeyDown("End")
           [] key.name = "Enter" -> WKeyDown("Enter")
           [] key.name = "Space" -> WCharInput(32)
           [] OTHER -> WNone
    ELSE IF StrLen(key.chars) = 1
         THEN IF key.chars[1] >= 32 /\ key.chars[1] <= 126
              THEN WCharInput(key.chars[1]) ELSE WNone
         ELSE WNone

\* KeyboardInput that routes a key going up like a key going down
KeyboardInput_KeyUpToo(s, isPressed, key) ==
    IF s.focused # None
    THEN LET wev == MapKey(key)
         IN IF wev # WNone
            THEN Result(SyncInputsToStore(Deliver(s, s.focused, wev)), TRUE)
            ELSE Result(s, FALSE)
    ELSE Result(s, FALSE)

\* WindowEvent::KeyboardInput
KeyboardInput(s, isPressed, key) ==
    IF ~isPressed THEN Result(s, FALSE)
    ELSE IF s.focused # None
         THEN LET wev == MapKey(key)
              IN IF wev # WNone
                 THEN Result(SyncInputsToStore(Deliver(s, s.focused, wev)), TRUE)
                 ELSE Result(s, FALSE)
         ELSE Result(s, FALSE)

(***************************************************************************)
(* The state machine: one action per window event.                         *)
(***************************************************************************)
App == [tree |-> tree, layout |-> layout, hovered |-> hovered, pressed |-> pressed,
        focused |-> focused, store |-> store, log |-> << >>]

Commit(r, kind) ==
    /\ tree' = r.s.tree
    /\ hovered' = r.s.hovered
    /\ pressed' = r.s.pressed
    /\ focused' = r.s.focused
    /\ store' = r.s.store
    /\ log' = r.s.log
    /\ ev' = kind
    /\ ret' = r.ret
    /\ UNCHANGED <<handlers, layout, disk, app_config, lua_handler>>

OnCursorMoved ==
    \E x \in 0..MaxX : Commit(CursorMoved(App, x, 0), "CursorMoved")

OnMousePressed == Commit(MousePressed(App), "Pressed")

\* The environment is consulted only when the release clicks a button whose
\* action has a script; for every other release one environment stands for all.
EnvsFor(s) ==
    IF /\ s.pressed # None
       /\ s.hovered = s.pressed
       /\ GetButtonAction(s, s.pressed) # None
       /\ GetScript(GetButtonAction(s, s.pressed)) # None
    THEN Envs
    ELSE {CHOOSE env \in Envs : env.readable}

OnMouseReleased ==
    \E env \in EnvsFor(App) : Commit(MouseReleased(App, handlers, env), "Released")

\* the text a key event would leave in the focused widget stays within MaxText
TextFits(key) ==
    focused # None /\ MapKey(key).e = "CharInput"
        => Len(tree[focused].text) < MaxText

\* every key going down, and two keys going up
KeyEvents == {[isPressed |-> TRUE, key |-> k] : k \in Keys}
                 \cup {[isPressed |-> FALSE, key |-> k] :
                          k \in {NamedKey("Enter"), CharKey(<<52>>)}}

OnKeyboardInput ==
    \E k \in KeyEvents :
        /\ k.isPressed => TextFits(k.key)
        /\ Commit(KeyboardInput(App, k.isPressed, k.key), "Keyboard")

\* the skins: the text input's binding, the button's action ("quit" is an
\* action no script is registered for) and the static text's binding
ButtonActions == {None, "double", "crash", "badstr", "reset", "quit"}
Skins == {[binding |-> "inputs.x", action |-> a, output |-> "outputs.y"] :
             a \in ButtonActions}
             \cup {[binding |-> None, action |-> a, output |-> "outputs.y"] :
                      a \in {None, "double"}}
ChainSkins == {[binding |-> "inputs.x", action |-> a, output |-> "outputs.y"] :
                  a \in ButtonActions}

InitApp(skins) ==
    /\ \E k \in skins : tree = BuildTree(k.binding, k.action, k.output)
    /\ layout = SkinLayout
    /\ hovered = None
    /\ pressed = None
    /\ focused = None
    /\ store = EmptyStore
    /\ log = << >>
    /\ ev = "init"
    /\ ret = FALSE
    /\ Booted

\* SkinApp::new: the dispatcher holds the Lua handler
Init == InitApp(Skins) /\ handlers = <<"lua">>

Next == OnCursorMoved \/ OnMousePressed \/ OnMouseReleased \/ OnKeyboardInput

Spec == Init /\ [][Next]_vars

\* The Lua handler alone, under the skins whose button runs one of the
\* scripts that read the Store, write several kinds of value, or fail.
ScriptActions == {"double", "crash", "badstr", "echo", "parse"}
ScriptSkins == {[binding |-> "inputs.x", action |-> a, output |-> "outputs.y"] :
                   a \in ScriptActions}
                   \cup {[binding |-> "inputs.x", action |-> "double", output |-> None]}

InitScript == InitApp(ScriptSkins) /\ handlers = <<"lua">>

SpecScript == InitScript /\ [][Next]_vars

\* The pointer over trees of other shapes: the four nodes in a flat, a
\* nested or a chained parent-child structure, each child with one of a few
\* rectangles that overlap each other, lie outside the root, or are empty.
ChildLists ==
    {[root |-> <<"input", "button", "label">>, input |-> << >>, button |-> << >>,
      label |-> << >>],
     [root |-> <<"input", "button">>, input |-> << >>, button |-> <<"label">>,
      label |-> << >>],
     [root |-> <<"input">>, input |-> <<"button">>, button |-> <<"label">>,
      label |-> << >>]}

RootRect == [x |-> 0, y |-> 0, w |-> 2, h |-> 1]
ChildRects == {[x |-> 0, y |-> 0, w |-> 1, h |-> 1], [x |-> 0, y |-> 0, w |-> 2, h |-> 2],
               [x |-> 1, y |-> 0, w |-> 2, h |-> 1], [x |-> 3, y |-> 1, w |-> 1, h |-> 1],
               [x |-> 0, y |-> 0, w |-> 0, h |-> 0]}

Layouts ==
    {[id \in NodeIds |-> [rect |-> IF id = "root" THEN RootRect ELSE r[id],
                          children |-> c[id]]] :
        r \in [NodeIds \ {"root"} -> ChildRects], c \in ChildLists}

InitHit ==
    /\ tree = BuildTree("inputs.x", None, "outputs.y")
    /\ layout \in Layouts
    /\ hovered = None
    /\ pressed = None
    /\ focused = None
    /\ store = EmptyStore
    /\ handlers = <<"lua">>
    /\ log = << >>
    /\ ev = "init"
    /\ ret = FALSE
    /\ Booted

OnCursorMovedTo ==
    \E x \in 0..MaxX, y \in 0..MaxY : Commit(CursorMoved(App, x, y), "CursorMoved")

NextHit == OnCursorMovedTo \/ OnMousePressed

SpecHit == InitHit /\ [][NextHit]_vars

\* Any chain of at most MaxHandlers handlers, driven by the pointer.
Chains == UNION {[1..n -> HandlerKinds] : n \in 0..MaxHandlers}

InitChain == InitApp(ChainSkins) /\ handlers \in Chains

NextChain == OnCursorMoved \/ OnMousePressed \/ OnMouseReleased

SpecChain == InitChain /\ [][NextChain]_vars

\* SkinApp::new itself, over disks on which the configuration is unreadable,
\* malformed, or names up to three actions whose scripts may be missing.
LoadNames == {"double", "crash", "quit"}
RelPaths == {<<"actions", "double.lua">>, <<"actions", "crash.lua">>,
             <<"/", "opt", "double.lua">>}
Disks ==
    [readable : BOOLEAN, parses : BOOLEAN,
     actions : UNION {[n -> RelPaths] : n \in SUBSET LoadNames},
     files : SUBSET {Join(Parent(ConfigPath), r) : r \in RelPaths}]

InitLoad ==
    /\ tree = BuildTree("inputs.x", "double", "outputs.y")
    /\ layout = SkinLayout
    /\ hovered = None
    /\ pressed = None
    /\ focused = None
    /\ store = EmptyStore
    /\ handlers = << >>
    /\ log = << >>
    /\ ev = "start"
    /\ ret = FALSE
    /\ disk \in Disks
    /\ app_config = {}
    /\ lua_handler = {}

\* SkinApp::new from the configuration on: load it, and on success build the
\* Lua handler and add it to the dispatcher; on failure return the error.
NewSkinApp ==
    /\ ev = "start"
    /\ \E o \in HashOrders(DOMAIN disk.actions) : app_config' = {Load(disk, o)}
    /\ lua_handler' = {NewHandler(c) : c \in {r \in app_config' : r.ok}}
    /\ handlers' = IF lua_handler' # {} THEN <<"lua">> ELSE << >>
    /\ ev' = "new"
    /\ ret' = (lua_handler' # {})
    /\ UNCHANGED <<tree, layout, hovered, pressed, focused, store, log, disk>>

NextLoad == NewSkinApp

SpecLoad == InitLoad /\ [][NextLoad]_vars

TypeOK ==
    /\ hovered \in NodeIds \cup {None}
    /\ pressed \in NodeIds \cup {None}
    /\ focused \in NodeIds \cup {None}
    /\ ret \in BOOLEAN

(***************************************************************************)
(* Properties.                                                             *)
(***************************************************************************)
IsClick(e) == e.e = "Click"
IsFocusGained(e) == e.e = "FocusGained"
IsHandle(e) == e.e = "handle"
IsResult(e) == e.e \in {"true", "false", "err"}

Clicks(l) == SelectSeq(l, IsClick)

\* C1: a pointer release delivers exactly one Click, to the pressed node, when
\* pressed = Some(p) and hovered = Some(p) at release time; it delivers no
\* Click when pressed is None or differs from hovered; and a step of any
\* other event delivers no Click.
C1_ClickOnlyOnRelease ==
    [][/\ (ev' = "Released" /\ pressed # None /\ hovered = pressed)
            => Clicks(log') = <<Ev("Click", pressed, 0)>>
       /\ (ev' = "Released" /\ (pressed = None \/ hovered # pressed))
            => Clicks(log') = << >>
       /\ ev' # "Released" => Clicks(log') = << >>]_vars

C1_Witness == ev = "Released" /\ Len(Clicks(log)) = 1 /\ hovered = "input"

\* C2: after every pointer release pressed is None, whether or not a Click
\* fired and whatever the dispatch returned.
C2_PressedClearedAfterRelease == ev = "Released" => pressed = None

C2_Witness ==
    /\ ev = "Released"
    /\ pressed = None
    /\ \E i \in DOMAIN log : log[i] = Ev("dispatched", "Err", 0)

FocusedWidgets == {n \in DOMAIN tree : tree[n].focus}

\* the log of a press over h that moves the focus from `old` to h
FocusMoveLog(old, h) ==
    (IF old # None THEN <<Ev("FocusLost", old, 0)>> ELSE << >>)
        \o <<Ev("set_focused", h, 0), Ev("FocusGained", h, 0)>>

\* C3: at most one widget holds the focus, and it is the focused node; a press
\* over h with focused # Some(h) delivers FocusLost to the old focused node
\* (if any), then sets focused = Some(h), then delivers FocusGained to h; a
\* press over the focused node delivers nothing and leaves focused; no other
\* step delivers FocusGained.
C3_FocusExclusive ==
    /\ [](FocusedWidgets = (IF focused = None THEN {} ELSE {focused}))
    /\ [][/\ (ev' = "Pressed" /\ hovered # None /\ focused # hovered)
               => (log' = FocusMoveLog(focused, hovered) /\ focused' = hovered)
          /\ (ev' = "Pressed" /\ hovered # None /\ focused = hovered)
               => (log' = << >> /\ focused' = focused)
          /\ SelectSeq(log', IsFocusGained) # << >>
               => (ev' = "Pressed" /\ hovered # None /\ focused # hovered)]_vars

C3_Witness ==
    /\ ev = "Pressed"
    /\ log = FocusMoveLog("input", "button")
    /\ focused = "button"

\* C4 as claimed: after a press while hovered is None, focused is None, no
\* FocusGained was delivered and pressed is None.
C4_Original ==
    (ev = "Pressed" /\ hovered = None)
        => (focused = None /\ pressed = None /\ SelectSeq(log, IsFocusGained) = << >>)

\* C4: a press while hovered is None delivers FocusLost to the focused node if
\* there is one and nothing else, sets focused to None, and leaves pressed as
\* it was before the press.
C4_PressOnEmptySpace ==
    [][(ev' = "Pressed" /\ hovered = None)
          => /\ log' = (IF focused # None THEN <<Ev("FocusLost", focused, 0)>> ELSE << >>)
                          \o <<Ev("set_focused", None, 0)>>
             /\ focused' = None
             /\ pressed' = pressed]_vars

C4_Witness ==
    /\ ev = "Pressed"
    /\ hovered = None
    /\ pressed = "input"
    /\ log = <<Ev("FocusLost", "input", 0), Ev("set_focused", None, 0)>>

Handles(l) == SelectSeq(l, IsHandle)
Results(l) == SelectSeq(l, IsResult)
Occurs(l, e) == \E i \in DOMAIN l : l[i] = e
OccursKind(l, k) == \E i \in DOMAIN l : l[i].e = k

\* the name of the action the call dispatched
Dispatched(l) == l[CHOOSE i \in DOMAIN l : l[i].e = "dispatch"].a

\* C6: dispatch invokes the handlers once each in registration order and
\* stops at the first that claims: the handlers before it returned false,
\* none after it is invoked, and dispatch returns success; for the chain
\* [no, yes, yes] the handlers invoked are the first and the second.
C6_FirstClaimWins ==
    LET hs == Handles(log)
        rs == Results(log)
    IN /\ Len(hs) = Len(rs)
       /\ Len(hs) <= Len(handlers)
       /\ \A j \in 1..Len(hs) :
             /\ hs[j] = Ev("handle", handlers[j], j)
             /\ rs[j].a = handlers[j] /\ rs[j].i = j
       /\ \A k \in 1..Len(rs) :
             rs[k].e = "true" =>
                 /\ k = Len(rs)
                 /\ \A j \in 1..(k - 1) : rs[j].e = "false"
                 /\ Occurs(log, Ev("dispatched", "Ok", 0))
       /\ (handlers = <<"no", "yes", "yes">> /\ OccursKind(log, "dispatch"))
             => hs = <<Ev("handle", "no", 1), Ev("handle", "yes", 2)>>

C6_Witness ==
    /\ handlers = <<"no", "yes", "yes">>
    /\ Results(log) = <<Ev("false", "no", 1), Ev("true", "yes", 2)>>

\* C7: when a handler returns Err, dispatch returns the error, and the
\* caller reports it and goes on: the store->outputs sync runs, pressed is
\* cleared, on_event returns `consumed`, and further events are accepted.
C7_HandlerErrorReported ==
    \A k \in DOMAIN log :
        log[k].e = "err" =>
            /\ SubSeq(log, k + 1, Len(log)) =
                   <<Ev("dispatched", "Err", 0), Ev("eprintln", Dispatched(log), 0),
                     Ev("sync_store_to_outputs", None, 0), Ev("set_pressed", None, 0)>>
            /\ ev = "Released"
            /\ pressed = None
            /\ ret = TRUE
            /\ ENABLED NextChain

C7_Witness ==
    /\ ev = "Released"
    /\ Results(log) = <<Ev("false", "no", 1), Ev("err", "err", 2)>>
    /\ Len(handlers) = 3

\* C8: when every handler of the chain returns false (the empty chain
\* included), dispatch has invoked each handler once, in order, returns
\* success, reports no error and leaves the Store as it was handed to the
\* handlers.
C8_UnclaimedIsNoOp ==
    [][(/\ ev' = "Released"
        /\ OccursKind(log', "dispatch")
        /\ \A k \in DOMAIN log' : IsResult(log'[k]) => log'[k].e = "false")
          => /\ Len(Handles(log')) = Len(handlers)
             /\ Len(Results(log')) = Len(handlers)
             /\ \A j \in 1..Len(handlers) :
                   /\ Handles(log')[j] = Ev("handle", handlers[j], j)
                   /\ Results(log')[j] = Ev("false", handlers[j], j)
             /\ Occurs(log', Ev("dispatched", "Ok", 0))
             /\ ~OccursKind(log', "eprintln")
             /\ ~OccursKind(log', "eprintln_lua")
             /\ store' = SyncInputsToStore(App).store]_vars

C8_Witness ==
    /\ ev = "Released"
    /\ handlers = <<"no", "lua", "no">>
    /\ Len(Results(log)) = Len(handlers)
    /\ Occurs(log, Ev("dispatched", "Ok", 0))

\* the release clicks a button whose action is a
ClicksAction(a) ==
    /\ pressed # None
    /\ hovered = pressed
    /\ GetButtonAction(App, pressed) = a

\* C9: handle, called for an action name that has no script, returns
\* Ok(false), creates no interpreter and leaves the Store as it was.
C9_NoScriptNotClaimed ==
    [][\A a \in ButtonActions \ {None} :
          (ev' = "Released" /\ ClicksAction(a) /\ GetScript(a) = None)
              => /\ Results(log') = <<Ev("false", "lua", 1)>>
                 /\ ~OccursKind(log', "Lua::new")
                 /\ store' = SyncInputsToStore(App).store]_vars

C9_Witness ==
    /\ ev = "Released"
    /\ Results(log) = <<Ev("false", "lua", 1)>>
    /\ StoreHas(store, "inputs.x")

\* the value inputs.x has in the Store is a numeral
InputIsNumeral(st) ==
    /\ StoreHas(st, "inputs.x")
    /\ st["inputs.x"].t = "String"
    /\ ParseNumber(st["inputs.x"].s) # LNil

\* C10: for an action name that has a script, handle returns Ok(true), never
\* Err or Ok(false), so it is the last handler invoked; when the script
\* fails (unreadable file, runtime fault, stripped global, a value that
\* cannot be copied back) the Store holds a String diagnostic at
\* "errors.action.<action name>".
C10_ScriptFailureClaimed ==
    [][\A a \in ButtonActions \ {None} :
          (/\ ev' = "Released"
           /\ ClicksAction(a)
           /\ GetScript(a) # None
           /\ Occurs(Handles(log'), Ev("handle", "lua", Len(Handles(log')))))
              => LET n == Len(Handles(log'))
                     failed == OccursKind(log', "eprintln_lua")
                 IN /\ Results(log')[n] = Ev("true", "lua", n)
                    /\ Occurs(log', Ev("dispatched", "Ok", 0))
                    /\ (\/ a \in {"crash", "badstr"}
                        \/ a = "double" /\ ~InputIsNumeral(SyncInputsToStore(App).store))
                           => failed
                    /\ failed =>
                          /\ StoreHas(store', "errors.action." \o a)
                          /\ store'["errors.action." \o a].t = "String"
                          /\ \E k \in {"Io", "Runtime"} :
                                /\ Occurs(log', Ev("eprintln_lua", k, 0))
                                /\ store'["errors.action." \o a] =
                                       VString(StrScriptError \o DisplayLuaError(k))]_vars

C10_Witness ==
    /\ ev = "Released"
    /\ handlers = <<"no", "lua", "yes">>
    /\ tree["button"].action = "crash"
    /\ Occurs(log, Ev("eprintln_lua", "Runtime", 0))
    /\ StoreHas(store, "errors.action.crash")

(***************************************************************************)
(* The scripted handler's use of the Store.                                *)
(***************************************************************************)
\* the Store handed to the handlers by a release that dispatches: the Store
\* after the inputs->store sync
PreStore == SyncInputsToStore(App).store

\* the call created an interpreter for the script of the action a
ScriptRan(l, a) == Occurs(l, Ev("Lua::new", ActionScripts[a], 0))
ScriptFailed(l) == OccursKind(l, "eprintln_lua")

\* the diagnostic handle stores for a script that raised an error
RuntimeDiagnostic == VString(StrScriptError \o DisplayLuaError("Runtime"))

\* C11: the Store is not modified while a script executes: app.set only
\* fills the output table, so a script that raises after an app.set leaves
\* the Store as it was but for the diagnostic; and app.get(k) returns the
\* value k had in the Store when handle started, also after the same script
\* called app.set(k, v') (echo sets inputs.x and then reads it: what it
\* copies to outputs.y is the Store's value of inputs.x at call time).
C11_SetIsBuffered ==
    [][/\ (ev' = "Released" /\ ClicksAction("crash") /\ ScriptRan(log', "crash"))
            => store' = StoreSet(PreStore, "errors.action.crash", RuntimeDiagnostic)
       /\ (ev' = "Released" /\ ClicksAction("echo") /\ ScriptRan(log', "echo")
              /\ StoreHas(PreStore, "inputs.x"))
            => /\ ~ScriptFailed(log')
               /\ StoreHas(store', "outputs.y")
               /\ store'["outputs.y"] = PreStore["inputs.x"]
               /\ store'["outputs.y"] # VString(<<55>>)]_vars

C11_Witness ==
    /\ ev = "Released"
    /\ tree["button"].action = "echo"
    /\ ScriptRan(log, "echo")
    /\ StoreHas(store, "outputs.y")
    /\ store["outputs.y"] = VString(<<52, 50>>)

\* the keys a script writes with app.set, and the value of the last write
WrittenKeys(script) == {script[i].k : i \in {j \in DOMAIN script : script[j].op = "set"}}
LastWrite(script, k) ==
    CHOOSE i \in DOMAIN script :
        /\ script[i].op = "set" /\ script[i].k = k
        /\ \A j \in DOMAIN script : (script[j].op = "set" /\ script[j].k = k) => j <= i
LastWritten(script, k, st) == Eval(script[LastWrite(script, k)].e, CopyIn(st))

\* the type-mapped image of a primitive Lua value
Image(v) ==
    CASE v.t = "string" -> VString(v.s)
      [] v.t \in {"number", "integer"} -> VNumber(v.n)
      [] v.t = "boolean" -> VBool(v.b)
      [] OTHER -> VNull

SameAt(st1, st2, k) ==
    /\ StoreHas(st1, k) <=> StoreHas(st2, k)
    /\ StoreHas(st1, k) => st1[k] = st2[k]

\* C12 as claimed: after a script invocation succeeds, every key the script
\* wrote holds the type-mapped image of the last value written to it
\* (string -> String, float or integer -> Number, boolean -> Bool,
\* nil -> Null), a key whose last written value is a table keeps its
\* pre-call value, and every other key is unchanged.
C12_Original ==
    [][\A a \in ScriptActions :
          (ev' = "Released" /\ ClicksAction(a) /\ ScriptRan(log', a) /\ ~ScriptFailed(log'))
              => \A k \in DOMAIN store' \cup DOMAIN PreStore \cup ScriptKeys :
                    IF k \in WrittenKeys(FileContent[ActionScripts[a]])
                    THEN LET v == LastWritten(FileContent[ActionScripts[a]], k, PreStore)
                         IN IF v.t = "table"
                            THEN SameAt(store', PreStore, k)
                            ELSE StoreHas(store', k) /\ store'[k] = Image(v)
                    ELSE SameAt(store', PreStore, k)]_vars

\* What the code does instead: a key whose last written value is nil is
\* not in the output table, and keeps its pre-call value like a key whose
\* last written value is a table; the rest is as claimed.
C12_NilWriteIsDropped ==
    [][\A a \in ScriptActions :
          (ev' = "Released" /\ ClicksAction(a) /\ ScriptRan(log', a) /\ ~ScriptFailed(log'))
              => \A k \in DOMAIN store' \cup DOMAIN PreStore \cup ScriptKeys :
                    IF k \in WrittenKeys(FileContent[ActionScripts[a]])
                    THEN LET v == LastWritten(FileContent[ActionScripts[a]], k, PreStore)
                         IN IF v.t \in {"table", "nil"}
                            THEN SameAt(store', PreStore, k)
                            ELSE StoreHas(store', k) /\ store'[k] = Image(v)
                    ELSE SameAt(store', PreStore, k)]_vars

\* the script parse succeeded with inputs.x = "" (its last write to outputs.y
\* is tonumber("") = nil) and outputs.y still holds the Number of an earlier
\* run
C12_Witness ==
    /\ ev = "Released"
    /\ tree["button"].action = "parse"
    /\ ScriptRan(log, "parse")
    /\ ~ScriptFailed(log)
    /\ StoreHas(store, "inputs.x") /\ store["inputs.x"] = VString(<< >>)
    /\ StoreHas(store, "outputs.y") /\ store["outputs.y"] = VNumber(4)

\* an application that holds the Store st and nothing else
BlankApp(st) ==
    [tree |-> BuildTree(None, None, None), layout |-> SkinLayout, hovered |-> None, pressed |-> None,
     focused |-> None, store |-> st, log |-> << >>]

\* what handle returns and the Store it leaves, for the script of the action
\* a read from its file, the Store st at call time and the order o in which
\* the interpreter of this call enumerates the output table
Outcome(a, st, o) ==
    [r |-> LuaHandle(BlankApp(st), a, [readable |-> TRUE, order |-> o]).r,
     store |-> LuaHandle(BlankApp(st), a, [readable |-> TRUE, order |-> o]).s.store]

\* the release runs the script double on a Store whose inputs.x is a numeral
DoubleOfNumeral ==
    /\ ev' = "Released" /\ ClicksAction("double") /\ ScriptRan(log', "double")
    /\ InputIsNumeral(PreStore)

\* C13 as claimed: the result of an invocation (final Store, return value) is
\* a function only of the script text and the Store at call time, whatever
\* ran before; and an invocation that failed does not keep a later one from
\* succeeding (double, once inputs.x is a numeral, succeeds and stores twice
\* its value, also when the Store holds the diagnostic of an earlier failure).
C13_Original ==
    [][/\ \A a \in ScriptActions :
             (ev' = "Released" /\ ClicksAction(a) /\ ScriptRan(log', a))
                 => \A o \in Orders :
                       /\ store' = Outcome(a, PreStore, o).store
                       /\ Results(log') = <<Ev(Outcome(a, PreStore, o).r, "lua", 1)>>
       /\ DoubleOfNumeral
             => /\ ~ScriptFailed(log')
                /\ store'["outputs.y"] =
                       VNumber(2 * DecimalValue(TrimRight(TrimLeft(PreStore["inputs.x"].s))))]_vars

\* What the code guarantees: the return value is such a function, and so is
\* the final Store of every invocation but one that fails while the output
\* table is copied back, whose final Store also depends on the order in
\* which this call's interpreter enumerates the output table.
C13_FreshInterpreter ==
    [][/\ \A a \in ScriptActions :
             (ev' = "Released" /\ ClicksAction(a) /\ ScriptRan(log', a))
                 => /\ \A o \in Orders :
                          Results(log') = <<Ev(Outcome(a, PreStore, o).r, "lua", 1)>>
                    /\ \E o \in Orders : store' = Outcome(a, PreStore, o).store
                    /\ a # "badstr" => \A o \in Orders : store' = Outcome(a, PreStore, o).store
       /\ DoubleOfNumeral
             => /\ ~ScriptFailed(log')
                /\ store'["outputs.y"] =
                       VNumber(2 * DecimalValue(TrimRight(TrimLeft(PreStore["inputs.x"].s))))]_vars

\* badstr, run on the empty Store, failed while outputs.z was copied back,
\* after outputs.y was: under another enumeration order the same call leaves
\* the Store without outputs.y
C13_Witness ==
    /\ ev = "Released"
    /\ tree["button"].action = "badstr"
    /\ ScriptRan(log, "badstr")
    /\ ScriptFailed(log)
    /\ DOMAIN store = {"outputs.y", "errors.action.badstr"}
    /\ \E o \in Orders :
          DOMAIN Outcome("badstr", EmptyStore, o).store = {"errors.action.badstr"}

(***************************************************************************)
(* The syncs around a dispatch.                                            *)
(***************************************************************************)
\* what the handlers of a dispatch log
IsHandlerEvent(e) == e.e \in {"handle", "true", "false", "err", "Lua::new", "eprintln_lua"}

\* the position of the event that ends the dispatch
DispatchEnd(l) == CHOOSE j \in DOMAIN l : l[j].e = "dispatched"

\* C14: every dispatch triggered by a click is bracketed by the two syncs,
\* with nothing in between: Click to the widget, inputs->store sync, dispatch
\* of the widget's action, store->outputs sync; the store->outputs sync runs
\* after every dispatch, also one that was unclaimed or returned an error,
\* and neither sync-around-dispatch runs without one.
C14_DispatchBracketed ==
    /\ \A k \in DOMAIN log :
          log[k].e = "dispatch" =>
              /\ k = 3
              /\ ev = "Released"
              /\ log[1].e = "Click"
              /\ log[2] = Ev("sync_inputs_to_store", None, 0)
              /\ log[3].a = GetButtonAction(App, log[1].a)
              /\ OccursKind(log, "dispatched")
              /\ \A j \in (k + 1)..(DispatchEnd(log) - 1) : IsHandlerEvent(log[j])
              /\ SubSeq(log, DispatchEnd(log) + 1, Len(log)) =
                     (IF log[DispatchEnd(log)].a = "Err"
                      THEN <<Ev("eprintln", log[3].a, 0)>> ELSE << >>)
                       \o <<Ev("sync_store_to_outputs", None, 0), Ev("set_pressed", None, 0)>>
    /\ \A k \in DOMAIN log :
          log[k].e \in {"sync_store_to_outputs", "dispatched"} => OccursKind(log, "dispatch")
    /\ Cardinality({k \in DOMAIN log : log[k].e = "dispatch"}) <= 1

\* a dispatch no handler claimed, between the two syncs
C14_Witness ==
    /\ handlers = <<"no">>
    /\ log = <<Ev("Click", "button", 0), Ev("sync_inputs_to_store", None, 0),
               Ev("dispatch", "quit", 0), Ev("handle", "no", 1), Ev("false", "no", 1),
               Ev("dispatched", "Ok", 0), Ev("sync_store_to_outputs", None, 0),
               Ev("set_pressed", None, 0)>>

\* the input widgets of a tree that are dirty and bound
DirtyBound(tr) ==
    {id \in DOMAIN tr : tr[id].kind = "TextInput" /\ tr[id].dirty /\ tr[id].binding # None}

\* the Store st with the entry (binding -> text) of every widget in ids
WithEntries(st, tr, ids) ==
    [k \in DOMAIN st \cup {tr[id].binding : id \in ids} |->
        IF \E id \in ids : tr[id].binding = k
        THEN VString(tr[CHOOSE id \in ids : tr[id].binding = k].text)
        ELSE st[k]]

\* the tree with the dirty flag of every input widget cleared
AllClean(tr) ==
    [id \in DOMAIN tr |->
        IF tr[id].kind = "TextInput" THEN [tr[id] EXCEPT !.dirty = FALSE] ELSE tr[id]]

\* C15: the inputs->store sync, run on the state a key event leaves once the
\* focused widget has received it: afterwards every input widget reports
\* not-dirty, and the Store has received exactly the entries
\* (binding -> text) of the widgets that were dirty and bound; a widget that
\* is not dirty or has no binding causes no write, and every other key is
\* unchanged.
C15_SyncWritesDirtyBound ==
    [][(ev' = "Keyboard" /\ ret')
          => \E k \in Keys :
                /\ MapKey(k) # WNone
                /\ focused # None
                /\ tree' = AllClean(Deliver(App, focused, MapKey(k)).tree)
                /\ store' = WithEntries(store, Deliver(App, focused, MapKey(k)).tree,
                                        DirtyBound(Deliver(App, focused, MapKey(k)).tree))
                /\ Occurs(log', Ev("sync_inputs_to_store", None, 0))]_vars

\* a key that leaves the widget not dirty was synced, and the Store kept a
\* value of the binding key that is not the widget's text
C15_Witness ==
    /\ ev = "Keyboard" /\ ret
    /\ log = <<Ev("KeyDown", "input", 0), Ev("sync_inputs_to_store", None, 0)>>
    /\ tree["input"].text = <<52>>
    /\ ~tree["input"].dirty
    /\ StoreHas(store, "inputs.x")
    /\ store["inputs.x"] = VString(<< >>)

\* C16: after the store->outputs sync every display widget with a binding
\* whose Store value, read as a string, is non-empty shows that string; one
\* whose bound value is absent or reads as the empty string keeps its
\* previous content; unbound widgets, input widgets and the Store are not
\* changed by the sync (the Store after the release is the Store the
\* dispatch left).
C16_OutputsShowStore ==
    [][(ev' = "Released" /\ Occurs(log', Ev("sync_store_to_outputs", None, 0)))
          => /\ \A id \in DOMAIN tree :
                   IF tree[id].kind = "StaticText" /\ tree[id].binding # None
                   THEN tree'[id] =
                          [tree[id] EXCEPT !.content =
                              IF StoreGetString(store', tree[id].binding) # << >>
                              THEN StoreGetString(store', tree[id].binding) ELSE @]
                   ELSE tree'[id] = tree[id]
             /\ \E env \in Envs :
                   store' = DispatchAction(SyncInputsToStore(Deliver(App, pressed, WClick)),
                                           handlers, GetButtonAction(App, pressed), env).store]_vars

\* the static text keeps "4" although its bound value now reads as empty
C16_Witness ==
    /\ ev = "Released"
    /\ Occurs(log, Ev("sync_store_to_outputs", None, 0))
    /\ tree["label"].binding = "outputs.y"
    /\ tree["label"].content = <<52>>
    /\ StoreHas(store, "outputs.y")
    /\ store["outputs.y"] = VString(<< >>)

\* C17: a Click on a node that has no action (a node that is no button, or a
\* button without action) invokes no handler and runs neither sync: the call
\* delivers the Click, clears pressed, and leaves the Store as it was before
\* the release.
C17_ClickWithoutAction ==
    [][(ev' = "Released" /\ ClicksAction(None))
          => /\ log' = <<Ev("Click", pressed, 0), Ev("set_pressed", None, 0)>>
             /\ store' = store]_vars

\* a click on the text input, after a click on the button ran reset
C17_Witness ==
    /\ ev = "Released"
    /\ log = <<Ev("Click", "input", 0), Ev("set_pressed", None, 0)>>
    /\ handlers = <<"lua">>
    /\ StoreHas(store, "outputs.y")

(***************************************************************************)
(* Key routing.                                                            *)
(***************************************************************************)
\* the key events of the model, the space bar, and the characters at the
\* edges of the accepted range
AllKeyEvents ==
    [isPressed : BOOLEAN,
     key : Keys \cup {NamedKey("Space"), NamedKey("Tab"), CharKey(<<31>>), CharKey(<<32>>),
                      CharKey(<<126>>), CharKey(<< >>)}]

\* the closed vocabulary: the widget event a key stands for, if any
VocabularyKeys == {"Backspace", "Delete", "ArrowLeft", "ArrowRight", "Home", "End", "Enter"}
InVocabulary(key) ==
    \/ key.named /\ key.name \in VocabularyKeys \cup {"Space"}
    \/ ~key.named /\ Len(key.chars) = 1 /\ key.chars[1] \in 32..126
VocabularyKind(key) == IF key.named /\ key.name # "Space" THEN "KeyDown" ELSE "CharInput"
VocabularyChar(key) == IF key.named THEN 32 ELSE key.chars[1]

\* C18: a key event is delivered to a widget, and reported as consumed, if
\* and only if it is a key-down, focused is Some(f) and the key maps into
\* the closed vocabulary (Backspace, Delete, Left, Right, Home, End, Enter,
\* or a single character with code 32..126, the space bar giving the
\* character 32); then the mapped event goes to f only and the
\* inputs->store sync runs after it.  In every other case no widget receives
\* an event, tree and Store are unchanged and the event is unconsumed.
C18_KeyRouting ==
    \A k \in AllKeyEvents :
        LET r == KeyboardInput(App, k.isPressed, k.key)
        IN IF k.isPressed /\ focused # None /\ InVocabulary(k.key)
           THEN /\ r.ret
                /\ r.s.log = <<Ev(VocabularyKind(k.key), focused, 0),
                               Ev("sync_inputs_to_store", None, 0)>>
                /\ \A id \in DOMAIN tree \ {focused} : r.s.tree[id] = tree[id]
                /\ (tree[focused].kind = "TextInput" /\ VocabularyKind(k.key) = "CharInput")
                      => r.s.tree[focused].text = Append(tree[focused].text, VocabularyChar(k.key))
                /\ r.s.hovered = hovered /\ r.s.pressed = pressed /\ r.s.focused = focused
           ELSE /\ ~r.ret
                /\ r.s = App

\* the second of two characters went to the focused text input and was synced
C18_Witness ==
    /\ ev = "Keyboard"
    /\ ret
    /\ log = <<Ev("CharInput", "input", 0), Ev("sync_inputs_to_store", None, 0)>>
    /\ focused = "input"
    /\ tree["input"].text = <<52, 50>>
    /\ StoreHas(store, "inputs.x")
    /\ store["inputs.x"] = VString(<<52, 50>>)

(***************************************************************************)
(* Hit testing.                                                            *)
(***************************************************************************)
\* the nodes in the order the search considers them: the children of a node
\* in reverse child order, each with its own subtree first, then the node
RECURSIVE SearchOrder(_, _)
RECURSIVE SearchOrderOfChildren(_, _, _)
SearchOrderOfChildren(lay, n, i) ==
    IF i = 0 THEN << >>
    ELSE SearchOrder(lay, lay[n].children[i]) \o SearchOrderOfChildren(lay, n, i - 1)
SearchOrder(lay, n) == SearchOrderOfChildren(lay, n, Len(lay[n].children)) \o <<n>>

\* the first node of the sequence whose rectangle contains the point
FirstContaining(lay, order, x, y) ==
    IF \E i \in DOMAIN order : Contains(lay[order[i]].rect, x, y)
    THEN order[CHOOSE i \in DOMAIN order :
                  /\ Contains(lay[order[i]].rect, x, y)
                  /\ \A j \in 1..(i - 1) : ~Contains(lay[order[j]].rect, x, y)]
    ELSE None

\* C19: for the tree and every point, hit_test returns None exactly when no
\* node's rectangle contains the point, and otherwise the first node whose
\* rectangle contains it in a depth-first search that tries children in
\* reverse child order and a node's children before the node itself; it
\* never returns a node whose rectangle excludes the point.  The hovered
\* node a pointer move leaves is such a result.
C19_HitTestFirstMatch ==
    /\ \A x \in 0..MaxX, y \in 0..MaxY :
          /\ HitTest(layout, x, y) = None
                <=> \A n \in NodeIds : ~Contains(layout[n].rect, x, y)
          /\ HitTest(layout, x, y) # None
                => Contains(layout[HitTest(layout, x, y)].rect, x, y)
          /\ HitTest(layout, x, y) = FirstContaining(layout, SearchOrder(layout, "root"), x, y)
    /\ ev = "CursorMoved"
          => \E x \in 0..MaxX, y \in 0..MaxY :
                hovered = FirstContaining(layout, SearchOrder(layout, "root"), x, y)

\* the pointer is over the static text, a grandchild that lies outside the
\* rectangles of its parent and of the root and under no sibling
C19_Witness ==
    /\ ev = "CursorMoved"
    /\ hovered = "label"
    /\ layout["button"].children = <<"label">>
    /\ layout["label"].rect = [x |-> 3, y |-> 1, w |-> 1, h |-> 1]
    /\ layout["button"].rect = [x |-> 0, y |-> 0, w |-> 2, h |-> 2]
    /\ layout["input"].rect = [x |-> 1, y |-> 0, w |-> 2, h |-> 1]

(***************************************************************************)
(* End to end.                                                             *)
(***************************************************************************)
\* C20: the Store starts empty; once the text input bound to inputs.x has
\* received the characters '4' and '2' (its text is "42"), a click on the
\* button whose action double runs
\* app.set("outputs.y", tonumber(app.get("inputs.x")) * 2) leaves outputs.y =
\* 84 in the Store and "84" in the static text bound to outputs.y when the
\* release has been processed.
C20_EndToEnd ==
    [][(/\ ev' = "Released"
        /\ ClicksAction("double")
        /\ ScriptRan(log', "double")
        /\ tree["input"].binding = "inputs.x"
        /\ tree["input"].text = <<52, 50>>
        /\ tree["label"].binding = "outputs.y")
          => /\ StoreHas(store', "inputs.x") /\ store'["inputs.x"] = VString(<<52, 50>>)
             /\ StoreHas(store', "outputs.y") /\ store'["outputs.y"] = VNumber(84)
             /\ tree'["label"].content = <<56, 52>>
             /\ ~ScriptFailed(log')]_vars

\* the first click after '4' and '2': nothing but the two inputs and the
\* script's output is in the Store
C20_Witness ==
    /\ ev = "Released"
    /\ ScriptRan(log, "double")
    /\ tree["input"].text = <<52, 50>>
    /\ DOMAIN store = {"inputs.x", "outputs.y"}
    /\ store["outputs.y"] = VNumber(84)
    /\ tree["label"].content = <<56, 52>>


\* the scripts of the configuration on disk that do not exist
Missing(d) ==
    {a \in DOMAIN d.actions : Join(Parent(ConfigPath), d.actions[a]) \notin d.files}

\* C21: once SkinApp::new has run on a configuration that was read and
\* parsed, (a) if some action names a script that does not exist, the load
\* failed with ScriptNotFound for one of the missing scripts and neither a
\* handler nor a dispatcher entry was made; (b) if the load succeeded, every
\* action of the configuration is mapped to its joined path, that path exists
\* on the disk, and the handler holds exactly the configuration's map.
C21_LoadChecksScripts ==
    (ev = "new" /\ disk.readable /\ disk.parses) =>
        /\ Missing(disk) # {} =>
              /\ \A c \in app_config :
                    /\ ~c.ok
                    /\ c.err = "ScriptNotFound"
                    /\ c.action \in Missing(disk)
                    /\ c.path = Join(Parent(ConfigPath), disk.actions[c.action])
              /\ lua_handler = {}
              /\ handlers = << >>
        /\ \A c \in app_config :
              c.ok =>
                 /\ DOMAIN c.action_scripts = DOMAIN disk.actions
                 /\ \A a \in DOMAIN disk.actions :
                       /\ c.action_scripts[a] = Join(Parent(ConfigPath), disk.actions[a])
                       /\ c.action_scripts[a] \in disk.files
                 /\ lua_handler = {[action_scripts |-> c.action_scripts]}
                 /\ handlers = <<"lua">>
        /\ app_config # {}

\* a configuration of two actions, one script in place and one missing, was
\* rejected; no handler exists
C21_Witness ==
    /\ ev = "new"
    /\ disk.readable /\ disk.parses
    /\ Cardinality(DOMAIN disk.actions) = 2
    /\ Cardinality(Missing(disk)) = 1
    /\ \E c \in app_config : ~c.ok /\ c.err = "ScriptNotFound"
    /\ lua_handler = {}

\* a configuration of two actions with both scripts in place was loaded and
\* the handler has both
C21_WitnessLoaded ==
    /\ ev = "new"
    /\ Cardinality(DOMAIN disk.actions) = 2
    /\ \E c \in app_config : c.ok
    /\ \E h \in lua_handler : DOMAIN h.action_scripts = DOMAIN disk.actions

\* C22: a pointer move to (x, 0) sets hovered to the hit-test result of that
\* position and leaves pressed, focused, every widget and the Store as they
\* were; a step that changes hovered is a pointer move, a step that changes
\* focused is a pointer press, and a step that changes pressed is a pointer
\* press or release.
C22_RolesChangeByOwnEvent ==
    [][/\ ev' = "CursorMoved" =>
             /\ \A x \in 0..MaxX :
                   Commit(CursorMoved(App, x, 0), "CursorMoved")
                       => hovered' = HitTest(layout, x, 0)
             /\ \E x \in 0..MaxX : hovered' = HitTest(layout, x, 0)
             /\ UNCHANGED <<pressed, focused, tree, store>>
       /\ hovered' # hovered => ev' = "CursorMoved"
       /\ focused' # focused => ev' = "Pressed"
       /\ pressed' # pressed => ev' \in {"Pressed", "Released"}]_vars

\* the pointer has moved off every node while the button is pressed and
\* focused and the input holds text
C22_Witness ==
    /\ ev = "CursorMoved"
    /\ hovered = None
    /\ pressed = "button"
    /\ focused = "button"
    /\ tree["input"].text # << >>

\* the Stores st1 and st2 agree at every key but k
SameBut(st1, st2, k) ==
    \A j \in (DOMAIN st1 \cup DOMAIN st2) \ {k} : SameAt(st1, st2, j)

\* C23 as claimed: whenever handle takes its failure path, also for a
\* failure raised while the output table is copied back, the diagnostic key
\* is written and the Store after the call differs from the Store before the
\* call at no other key.
C23_Original ==
    [][\A a \in ScriptActions :
          (ev' = "Released" /\ ClicksAction(a) /\ ScriptFailed(log'))
              => /\ StoreHas(store', "errors.action." \o a)
                 /\ SameBut(store', PreStore, "errors.action." \o a)]_vars

\* What the code guarantees: a failure to read the file or to execute the
\* script leaves every key but the diagnostic as it was; only the script
\* that fails during the copy-back can leave other writes behind.
C23_FailureBeforeCopyBack ==
    [][\A a \in ScriptActions \ {"badstr"} :
          (ev' = "Released" /\ ClicksAction(a) /\ ScriptFailed(log'))
              => /\ StoreHas(store', "errors.action." \o a)
                 /\ SameBut(store', PreStore, "errors.action." \o a)]_vars

\* badstr failed at outputs.z and its write of outputs.y stayed in the Store,
\* next to the diagnostic and the typed input
C23_Witness ==
    /\ ev = "Released"
    /\ ScriptFailed(log)
    /\ StoreHas(store, "errors.action.badstr")
    /\ StoreHas(store, "outputs.y") /\ store["outputs.y"] = VString(<<111, 107>>)
    /\ ~StoreHas(store, "outputs.z")
    /\ StoreHas(store, "inputs.x") /\ store["inputs.x"] = VString(<<52>>)

\* C24: in every state between two events (after any sequence of pointer
\* moves, presses, releases and key events, each processed to completion) no
\* TextInput is dirty, whether it has a binding or not.
C24_NoDirtyBetweenEvents ==
    \A id \in DOMAIN tree : tree[id].kind = "TextInput" => ~tree[id].dirty

\* a key event has changed the text of an input that has no binding, and the
\* widget is clean again
C24_Witness ==
    /\ ev = "Keyboard"
    /\ ret
    /\ tree["input"].kind = "TextInput"
    /\ tree["input"].binding = None
    /\ tree["input"].text # << >>
    /\ ~tree["input"].dirty

\* the bound inputs whose text shows that they received text-changing input
TypedBound(tr) ==
    {id \in DOMAIN tr : tr[id].kind = "TextInput" /\ tr[id].binding # None
                            /\ tr[id].text # << >>}

\* the release invokes a handler
HandlerInvoked == ev' = "Released" /\ OccursKind(log', "handle")

\* C25 as claimed: whenever the click sequence invokes a handler, the Store
\* the handler is given (the Store once the inputs were synced) holds, at the
\* binding key of every bound TextInput that has received text, the String
\* equal to the widget's current text.
C25_Original ==
    [][HandlerInvoked =>
          \A id \in TypedBound(tree) :
              /\ StoreHas(PreStore, tree[id].binding)
              /\ PreStore[tree[id].binding] = VString(tree[id].text)]_vars

\* What the code guarantees: the same, as long as the script of the skin's
\* button does not itself write the binding key.
C25_SeenUnlessOverwritten ==
    [][HandlerInvoked =>
          \A id \in TypedBound(tree) :
              (\A a \in DOMAIN ActionScripts :
                  tree["button"].action = a
                      => tree[id].binding \notin WrittenKeys(FileContent[ActionScripts[a]]))
                  => /\ StoreHas(PreStore, tree[id].binding)
                     /\ PreStore[tree[id].binding] = VString(tree[id].text)]_vars

\* reset has cleared inputs.x in the Store while the input still shows the
\* typed text and is not dirty: the next click's handler reads ""
C25_Witness ==
    /\ ev = "Released"
    /\ tree["button"].action = "reset"
    /\ tree["input"].text # << >>
    /\ ~tree["input"].dirty
    /\ StoreHas(store, "inputs.x") /\ store["inputs.x"] = VString(<< >>)
    /\ pressed = None /\ hovered = "button"
====
